---- MODULE Spec2Model ----
(***************************************************************************)
(* Model of the hybrid extraction service of Health-Report-Analyzer:       *)
(* extractHealthData (server/services/extractionService) sequencing        *)
(* extractWithGemini (server/services/geminiService) and extractWithOCR    *)
(* (server/services/ocrService).                                           *)
(*                                                                         *)
(* JavaScript objects are functions from their own property names: a       *)
(* property that is absent, or whose value is undefined, is a name outside *)
(* the DOMAIN.  { ...a, k: v } is Spread(a, [k |-> v]).                     *)
(***************************************************************************)
EXTENDS Integers, Sequences, FiniteSets, TLC

\* Longest list of health parameters a collaborator hands back.
MaxParams == 3
\* Longest time one collaborator call takes, in clock ticks.
MaxDelay == 1

VARIABLES
    pc,             \* position of extractHealthData
    forceMethod,    \* options.forceMethod
    preferGemini,   \* options.preferGemini
    includeInsights,\* options.includeInsights
    apiKey,         \* process.env.GEMINI_API_KEY is set
    mimeType,       \* the mimeType argument
    now,            \* Date.now()
    startTime,      \* const startTime
    extractionLog,  \* const extractionLog
    geminiResult,   \* the awaited result of extractWithGemini
    ocrResult,      \* the awaited result of extractWithOCR
    thrown,         \* message of the Error in flight
    outcome,        \* the promise of extractHealthData
    ret,            \* the value the promise resolved with
    geminiCalls,    \* number of calls of extractWithGemini
    ocrCalls,       \* number of calls of extractWithOCR
    fileBuffer      \* the fileBuffer argument

\* extractTextFromPDFBuffer, extractTextFromImageBuffer and deskewImage
VARIABLES
    tpc,            \* position of the text extraction
    parsed,         \* text of the PDF text layer
    deskew,         \* locals of deskewImage
    rotation,       \* rotation of deskewedBuffer against the buffer
    quick,          \* quickText, quickConf and quickScore
    vpc,            \* position of each preprocessing method
    results,        \* what each preprocessing method resolved with
    bestResult,     \* the result the reduce chose
    extracted,      \* the text returned
    recognitions,   \* number of calls of Tesseract.recognize
    pipelineRuns,   \* number of calls of extractTextFromImageBuffer
    completions     \* the preprocessing methods in the order they settled

\* calculateQualityScore
VARIABLES
    scoreArgs,      \* the texts and confidences scored
    scoreResult     \* the scores returned

\* Two calls of extractHealthData in flight at once
VARIABLES
    calls,          \* arguments and locals of each call
    logs            \* the extractionLog objects

\* POST /api/upload
VARIABLES
    rpc,            \* position of the handler
    file,           \* req.file is set
    extraction,     \* extractionResult
    reports,        \* the reports saved
    response,       \* status and body of the answer
    caught          \* messages of the errors the catch blocks caught

\* sanitizeStatus
VARIABLES
    status,         \* the status argument
    sanitized       \* the value returned

pipeline == <<tpc, parsed, deskew, rotation, quick, vpc, results, bestResult,
              extracted, recognitions, pipelineRuns, completions>>

scorer == <<scoreArgs, scoreResult>>

concurrent == <<calls, logs>>

route == <<rpc, file, extraction, reports, response, caught>>

sanitizer == <<status, sanitized>>

others == <<route, sanitizer>>

\* The state outside one call of extractHealthData.
outside == <<pipeline, scorer, concurrent, others>>

vars == <<pc, forceMethod, preferGemini, includeInsights, apiKey, mimeType,
          now, startTime, extractionLog, geminiResult, ocrResult, thrown,
          outcome, ret, geminiCalls, ocrCalls, fileBuffer, outside>>

----------------------------------------------------------------------------
\* JavaScript values

\* null of a property that otherwise holds an object
Null == <<>>
IsNull(v) == DOMAIN v = {}
\* null of a property that otherwise holds a string
NullString == "null"
\* no Error in flight
NoError == "none"

Has(obj, key) == key \in DOMAIN obj

Spread(a, b) ==
    [k \in DOMAIN a \cup DOMAIN b |-> IF k \in DOMAIN b THEN b[k] ELSE a[k]]

\* A text is known by its length and the length of its trim().
Text(len, trimLen) == [len |-> len, trimLen |-> trimLen]
Sentinel == Text(1, 0)
EmptyText == Text(0, 0)

\* The texts of the model: bare words around the thresholds 10, 50 and 100,
\* the same padded with white space, and white space alone.
Texts ==
    { EmptyText, Sentinel, Text(5, 5), Text(10, 10), Text(11, 0), Text(11, 11),
      Text(49, 49), Text(50, 50), Text(51, 0), Text(51, 49), Text(51, 51),
      Text(52, 50), Text(101, 101), Text(103, 101) }

\* Status flags of a health parameter that generateBasicInsights tells apart.
Statuses == {"Normal", "High", "Low", "Unknown"}

MkParams(ss) == [i \in 1..Len(ss) |-> [name |-> i, status |-> ss[i]]]

\* The lists of health parameters of at most MaxParams entries.
ParamLists ==
    { MkParams(ss) : ss \in UNION { [1..n -> Statuses] : n \in 0..MaxParams } }

toLowerCase(s) ==
    CASE s = "Normal" -> "normal"
      [] s = "High" -> "high"
      [] s = "Low" -> "low"
      [] OTHER -> "unknown"

----------------------------------------------------------------------------
\* generateBasicInsights

IsOutlier(p) == p.status = "High" \/ p.status = "Low"
IsNormal(p) == p.status = "Normal"

OutlierEntry(p) ==
    [parameter |-> p.name, severity |-> "Unknown",
     concern |-> <<p.name, "is", toLowerCase(p.status)>>]

PositiveFinding(p) == <<p.name, "is within normal range">>

generateBasicInsights(healthParameters) ==
    LET outliers == SelectSeq(healthParameters, IsOutlier)
        normal == SelectSeq(healthParameters, IsNormal)
        n == Len(outliers)
    IN  [summary |-> IF n > 0
                     THEN [count |-> n, text |-> "parameter(s) outside normal range detected"]
                     ELSE [count |-> 0, text |-> "All parameters within normal ranges"],
         outliers |-> [i \in 1..n |-> OutlierEntry(outliers[i])],
         recommendations |->
             IF n > 0 THEN <<"Some parameters are outside normal range">>
             ELSE IF Len(healthParameters) > 0
                  THEN <<"All measured parameters appear to be within normal ranges">>
                  ELSE <<>>,
         riskLevel |-> IF n > 2 THEN "Moderate" ELSE "Low",
         positiveFindings |->
             [i \in 1..Len(normal) |-> PositiveFinding(normal[i])]]

----------------------------------------------------------------------------
\* extractWithGemini

\* What the Gemini call and the parse of its answer come to.
GeminiOutcomes ==
    { [kind |-> "apiError"], [kind |-> "parseError"], [kind |-> "invalidStructure"] }
    \cup { [kind |-> "parsed", parameters |-> ps] : ps \in ParamLists }

GeminiErrorMessage(o) ==
    CASE o.kind = "apiError" -> "fetch failed"
      [] o.kind = "parseError" -> "Unexpected token"
      [] OTHER -> "Invalid response structure from Gemini"

GeminiInsights ==
    [summary |-> [count |-> 0, text |-> ""], outliers |-> <<>>,
     recommendations |-> <<>>, riskLevel |-> "Unknown", positiveFindings |-> <<>>,
     trendsToMonitor |-> <<>>, lifestyle |-> <<>>]

GeminiSuccess(o, elapsed) ==
    [success |-> TRUE,
     method |-> "gemini",
     extractedText |-> EmptyText,
     patientInfo |-> <<>>,
     healthParameters |-> o.parameters,
     aiInsights |-> GeminiInsights,
     metadata |-> [model |-> "gemini-2.5-flash",
                   processingTime |-> elapsed,
                   parameterCount |-> Len(o.parameters)]]

GeminiFailure(o, elapsed) ==
    [success |-> FALSE,
     method |-> "gemini",
     error |-> GeminiErrorMessage(o),
     processingTime |-> elapsed]

extractWithGeminiResult(o, elapsed) ==
    IF o.kind = "parsed" THEN GeminiSuccess(o, elapsed) ELSE GeminiFailure(o, elapsed)

----------------------------------------------------------------------------
\* extractWithOCR

\* A trimmed text shorter than this is minimal: the document counts as scanned.
MinimalTextLength == 50
\* extractTextFromImageBuffer returns the best text only when longer than this.
MinimalLengthFloor == 10

\* extractTextFromImageBuffer returns the quick or the best text, the
\* latter only when longer than 10, and ' ' otherwise.
TextsFromImage == { t \in Texts : t.len > MinimalLengthFloor } \cup { Sentinel }

\* extractTextFromPDFBuffer returns the text layer when its trim() is
\* longer than 100, the image pipeline's text otherwise, ' ' on an error.
TextsFromPDF == { t \in Texts : t.trimLen > 100 } \cup TextsFromImage \cup { Sentinel }

ExtractedTexts(mime) ==
    IF mime = "application/pdf" THEN TextsFromPDF ELSE TextsFromImage

\* What extractHealthParameters comes to.
ParserOutcomes ==
    { [kind |-> "throws"] } \cup { [kind |-> "parsed", parameters |-> ps] : ps \in ParamLists }

\* The trimmed text counted as minimal below the floor of the image pipeline.
hasMinimalText_Floor(text) == text.trimLen > 0 /\ text.trimLen < MinimalLengthFloor

hasMinimalText(text) == text.trimLen > 0 /\ text.trimLen < MinimalTextLength

\* The test without its trim: extractedText.length === 0
hasNoText_Untrimmed(text) == text.len = 0

\* extractedText.trim().length === 0
hasNoText(text) == text.trimLen = 0
isScannedDocument(text) == hasMinimalText(text) \/ hasNoText(text)

\* extractedText after `if (hasNoText) extractedText = ' '`
TextAfterClassify(text) == IF hasNoText(text) THEN Sentinel ELSE text

\* extractHealthParameters is called only for a text longer than 50.
CallsParser(text) == TextAfterClassify(text).len > 50

\* success told by the parameters alone: healthParameters.length > 0
OCRSuccessResult_ParametersOnly(text, healthParameters, elapsed) ==
    [success |-> Len(healthParameters) > 0,
     method |-> "ocr",
     extractedText |-> TextAfterClassify(text),
     healthParameters |-> healthParameters,
     isScannedDocument |-> isScannedDocument(text),
     requiresManualEntry |-> Len(healthParameters) = 0,
     metadata |-> [processingTime |-> elapsed,
                   textLength |-> TextAfterClassify(text).len,
                   parameterCount |-> Len(healthParameters)]]

\* The object of lines 758-770.
OCRSuccessResult(text, healthParameters, elapsed) ==
    [success |-> Len(healthParameters) > 0 \/ isScannedDocument(text),
     method |-> "ocr",
     extractedText |-> TextAfterClassify(text),
     healthParameters |-> healthParameters,
     isScannedDocument |-> isScannedDocument(text),
     requiresManualEntry |-> Len(healthParameters) = 0,
     metadata |-> [processingTime |-> elapsed,
                   textLength |-> TextAfterClassify(text).len,
                   parameterCount |-> Len(healthParameters)]]

\* The error object built without its method.
OCRFailureResult_NoMethod(elapsed) ==
    [success |-> FALSE,
     error |-> "parameter extraction failed",
     processingTime |-> elapsed]

OCRFailureResult(elapsed) ==
    [success |-> FALSE,
     method |-> "ocr",
     error |-> "parameter extraction failed",
     processingTime |-> elapsed]

extractWithOCRResult(text, parse, elapsed) ==
    IF CallsParser(text)
    THEN IF parse.kind = "throws"
         THEN OCRFailureResult(elapsed)
         ELSE OCRSuccessResult(text, parse.parameters, elapsed)
    ELSE OCRSuccessResult(text, <<>>, elapsed)

----------------------------------------------------------------------------
\* calculateQualityScore

\* Most unit patterns and table patterns counted in a scored text.
MaxUnits == 3
MaxTables == 2

\* The vocabulary of calculateQualityScore.
medicalTerms == <<"glucose", "cholesterol", "hemoglobin", "triglyceride", "creatinine">>

\* A recognized text is known by its length, the length of its trim() and
\* the three counts calculateQualityScore takes of it.
OcrText(len, trimLen, terms, units, tables) ==
    [len |-> len, trimLen |-> trimLen, medicalTermCount |-> terms,
     unitPatterns |-> units, tablePatterns |-> tables]

\* The total without the points of the confidence.
calculateQualityScore_NoConfidence(t, confidence) ==
    LET score == [content |-> IF t.len > 100 THEN 500 ELSE t.len * 3,
                  structure |-> t.tablePatterns * 80,
                  medicalContent |-> t.medicalTermCount * 150,
                  units |-> t.unitPatterns * 120,
                  confidence |-> confidence * 4]
    IN  [total |-> score.content + score.structure + score.medicalContent + score.units,
         breakdown |-> score,
         metrics |-> [charCount |-> t.len, medicalTermCount |-> t.medicalTermCount,
                      unitPatterns |-> t.unitPatterns, tablePatterns |-> t.tablePatterns]]

\* The medical terms scored as the characters are: a flat 15 points above
\* three terms.
calculateQualityScore_FlatTerms(t, confidence) ==
    LET score == [content |-> IF t.len > 100 THEN 500 ELSE t.len * 3,
                  structure |-> t.tablePatterns * 80,
                  medicalContent |-> IF t.medicalTermCount > 3 THEN 150
                                     ELSE t.medicalTermCount * 150,
                  units |-> t.unitPatterns * 120,
                  confidence |-> confidence * 4]
    IN  [total |-> score.content + score.structure + score.medicalContent
                   + score.units + score.confidence,
         breakdown |-> score,
         metrics |-> [charCount |-> t.len, medicalTermCount |-> t.medicalTermCount,
                      unitPatterns |-> t.unitPatterns, tablePatterns |-> t.tablePatterns]]

\* Points are counted in tenths: 0.3 a character is 3, 0.4 a point of
\* confidence is 4, 8 a table pattern is 80.
calculateQualityScore(t, confidence) ==
    LET score == [content |-> IF t.len > 100 THEN 500 ELSE t.len * 3,
                  structure |-> t.tablePatterns * 80,
                  medicalContent |-> t.medicalTermCount * 150,
                  units |-> t.unitPatterns * 120,
                  confidence |-> confidence * 4]
    IN  [total |-> score.content + score.structure + score.medicalContent
                   + score.units + score.confidence,
         breakdown |-> score,
         metrics |-> [charCount |-> t.len, medicalTermCount |-> t.medicalTermCount,
                      unitPatterns |-> t.unitPatterns, tablePatterns |-> t.tablePatterns]]

\* Confidences of the OCR engine, in percent.
Confidences == {0, 75, 100}

\* The texts scored: lengths around the cap of 100 with every count.
ScoreTexts ==
    { OcrText(len, len, terms, units, tables) :
        len \in {0, 50, 100, 101, 200}, terms \in 0..Len(medicalTerms),
        units \in 0..MaxUnits, tables \in 0..MaxTables }

ScorerIdle == scoreArgs = Null /\ scoreResult = Null

ConcurrentIdle == calls = Null /\ logs = Null

RouteIdle ==
    /\ rpc = "idle"
    /\ file = FALSE
    /\ extraction = Null
    /\ reports = <<>>
    /\ response = Null
    /\ caught = <<>>

SanitizerIdle == status = Null /\ sanitized = NullString

OthersIdle == RouteIdle /\ SanitizerIdle

----------------------------------------------------------------------------
\* deskewImage, extractTextFromImageBuffer, extractTextFromPDFBuffer

Buffers == {"empty", "document"}

\* ' '
Blank == OcrText(1, 0, 0, 0, 0)

\* The texts Tesseract reads: none, noise of the floor's length, a caption, a
\* paragraph without and reports with medical terms.
EngineTexts ==
    { OcrText(0, 0, 0, 0, 0), OcrText(10, 10, 0, 0, 0), OcrText(11, 11, 0, 0, 0),
      OcrText(40, 38, 1, 0, 1), OcrText(120, 120, 1, 0, 0), OcrText(120, 118, 2, 0, 0),
      OcrText(200, 200, 3, 3, 0), OcrText(200, 198, 4, 2, 1) }

Throws == [kind |-> "throws"]

\* What one call of Tesseract.recognize comes to; of a buffer without a
\* byte the engine reads nothing, or rejects it.
EngineOutcomes(buffer) ==
    IF buffer = "empty"
    THEN { Throws, [kind |-> "read", text |-> OcrText(0, 0, 0, 0, 0), confidence |-> 0] }
    ELSE { Throws } \cup { [kind |-> "read", text |-> t, confidence |-> c] :
                             t \in EngineTexts, c \in Confidences }

\* What one sharp pipeline comes to; sharp rejects a buffer without a byte.
TransformOutcomes(buffer) ==
    IF buffer = "empty" THEN { Throws } ELSE { Throws, [kind |-> "buffer"] }

\* The text layers pdfParse finds.
PdfTexts ==
    { OcrText(0, 0, 0, 0, 0), OcrText(102, 100, 1, 0, 0), OcrText(103, 101, 1, 0, 0),
      OcrText(200, 200, 3, 3, 0) }

\* What pdfParse comes to; a buffer without a byte is no PDF file.
PdfOutcomes(buffer) ==
    IF buffer = "empty" THEN { Throws }
    ELSE { Throws } \cup { [kind |-> "parsed", text |-> t] : t \in PdfTexts }

\* data.text.trim().length > 100
MinimalPdfTextLength == 100
\* text.length < 50 of deskewImage
DeskewTextLength == 50
\* quickScore.total > 150, in tenths
QuickAcceptScore == 1500
\* quickScore.metrics.medicalTermCount > 3
QuickAcceptTerms == 3

\* The loop probing the unrotated buffer once more.
rotations_WithZero == <<0, 90, 180, 270>>

\* const rotations = [90, 180, 270]
rotations == <<90, 180, 270>>

\* PREPROCESSING_METHODS.slice(0, 2)
PreprocessingMethods == <<"High-Quality Medical", "Adaptive CLAHE">>
Methods == 1..Len(PreprocessingMethods)

\* What a preprocessing method resolves with after an exception.
FailedCandidate(i) ==
    [text |-> OcrText(0, 0, 0, 0, 0), score |-> [total |-> 0],
     method |-> PreprocessingMethods[i]]

Candidate(i, reading) ==
    [text |-> reading.text,
     score |-> calculateQualityScore(reading.text, reading.confidence),
     method |-> PreprocessingMethods[i]]

\* The later result winning a tie.
Better_LastOnTies(best, current) ==
    IF current.score.total >= best.score.total THEN current ELSE best

\* current.score.total > best.score.total ? current : best
Better(best, current) ==
    IF current.score.total > best.score.total THEN current ELSE best

RECURSIVE ReduceFrom(_, _, _)
ReduceFrom(rs, best, k) ==
    IF k > Len(rs) THEN best ELSE ReduceFrom(rs, Better(best, rs[k]), k + 1)

\* results.reduce(...) without an initial value
Reduce(rs) == ReduceFrom(rs, rs[1], 2)

\* The floor left out of the return.
FloorText_None(t) == t

\* bestResult.text.length > 10 ? bestResult.text : ' '
FloorText(t) == IF t.len > MinimalLengthFloor THEN t ELSE Blank

PipelineIdle ==
    /\ tpc = "idle"
    /\ parsed = Null
    /\ deskew = Null
    /\ rotation = 0
    /\ quick = Null
    /\ vpc = [i \in Methods |-> "idle"]
    /\ results = [i \in Methods |-> Null]
    /\ bestResult = Null
    /\ extracted = Null
    /\ recognitions = 0
    /\ pipelineRuns = 0
    /\ completions = <<>>

----------------------------------------------------------------------------
\* extractHealthData

ForceMethods == {NullString, "gemini", "ocr", "manual"}
MimeTypes == {"application/pdf", "image/png"}

\* The branch extractHealthData takes, named by the call it awaits.
Dispatch(force, prefer, key) ==
    IF force = "ocr" THEN "awaitForcedOCR"
    ELSE IF force = "gemini" THEN "awaitForcedGemini"
    ELSE IF prefer /\ key THEN "awaitAutoGemini"
    ELSE "awaitAutoOCR"

\* The try block closed before the OCR fallback.
InTry_FallbackOutside(position) ==
    position \in {"awaitForcedOCR", "forcedOCR", "awaitForcedGemini", "forcedGemini",
                  "awaitAutoGemini", "autoGemini"}

\* The positions inside the try block.
InTry(position) ==
    position \in {"awaitForcedOCR", "forcedOCR", "awaitForcedGemini", "forcedGemini",
                  "awaitAutoGemini", "autoGemini", "awaitAutoOCR", "autoOCR"}

\* { method, success } of the forced branches
Attempt(method, result) == [method |-> method, success |-> result.success]

\* { method, success, processingTime: result.metadata?.processingTime }
TimedAttempt(method, result) ==
    IF Has(result, "metadata")
    THEN [method |-> method, success |-> result.success,
          processingTime |-> result.metadata.processingTime]
    ELSE [method |-> method, success |-> result.success]

\* The test of the parameter count left out.
GeminiSufficient_SuccessOnly(result) == result.success

\* geminiResult.success && geminiResult.healthParameters.length > 0
GeminiSufficient(result) == result.success /\ Len(result.healthParameters) > 0

\* The object the catch block returns.
FailedResult(message, log) ==
    [success |-> FALSE,
     method |-> "failed",
     extractedText |-> Sentinel,
     healthParameters |-> <<>>,
     isScannedDocument |-> TRUE,
     requiresManualEntry |-> TRUE,
     error |-> message,
     extractionLog |-> log]

\* The result of the automatic OCR branch.
AutoOCRResult(result, insights, log) ==
    Spread(result,
           [aiInsights |-> IF insights THEN generateBasicInsights(result.healthParameters)
                           ELSE Null,
            extractionLog |-> log])

\* The Gemini API rejects a request without image data.
GeminiOutcomesOf(buffer) ==
    IF buffer = "empty" THEN { [kind |-> "apiError"] } ELSE GeminiOutcomes

\* No text is extracted from a buffer without a byte.
ExtractedTextsOf(buffer, mime) ==
    IF buffer = "empty" THEN { Sentinel } ELSE ExtractedTexts(mime)

Init ==
    /\ pc = "start"
    /\ forceMethod \in ForceMethods
    /\ preferGemini \in BOOLEAN
    /\ includeInsights \in BOOLEAN
    /\ apiKey \in BOOLEAN
    /\ mimeType \in MimeTypes
    /\ now = 0
    /\ startTime = 0
    /\ extractionLog = Null
    /\ geminiResult = Null
    /\ ocrResult = Null
    /\ thrown = NoError
    /\ outcome = "pending"
    /\ ret = Null
    /\ geminiCalls = 0
    /\ ocrCalls = 0
    /\ fileBuffer \in Buffers
    /\ PipelineIdle
    /\ ScorerIdle
    /\ ConcurrentIdle
    /\ OthersIdle

options == <<forceMethod, preferGemini, includeInsights, apiKey, mimeType, fileBuffer>>

\* throw new Error(message) at the current position
Throw(message) ==
    /\ thrown' = message
    /\ ret' = ret
    /\ IF InTry(pc)
       THEN pc' = "catch" /\ outcome' = outcome
       ELSE pc' = "done" /\ outcome' = "rejected"

\* return value
Return(value) ==
    /\ ret' = value
    /\ pc' = "done"
    /\ outcome' = "fulfilled"
    /\ thrown' = thrown

\* Entry up to the first await.
Start ==
    /\ pc = "start"
    /\ extractionLog' = [attempts |-> <<>>, finalMethod |-> NullString, totalTime |-> 0]
    /\ startTime' = now
    /\ pc' = Dispatch(forceMethod, preferGemini, apiKey)
    /\ geminiCalls' = IF pc' \in {"awaitForcedGemini", "awaitAutoGemini"}
                      THEN geminiCalls + 1 ELSE geminiCalls
    /\ ocrCalls' = IF pc' \in {"awaitForcedOCR", "awaitAutoOCR"}
                   THEN ocrCalls + 1 ELSE ocrCalls
    /\ UNCHANGED <<options, outside, now, geminiResult, ocrResult, thrown, outcome, ret>>

\* The awaited call of extractWithGemini settles.
extractWithGemini ==
    /\ pc \in {"awaitForcedGemini", "awaitAutoGemini"}
    /\ \E o \in GeminiOutcomesOf(fileBuffer), elapsed \in 0..MaxDelay :
          /\ geminiResult' = extractWithGeminiResult(o, elapsed)
          /\ now' = now + elapsed
    /\ pc' = IF pc = "awaitForcedGemini" THEN "forcedGemini" ELSE "autoGemini"
    /\ UNCHANGED <<options, outside, startTime, extractionLog, ocrResult, thrown, outcome,
                   ret, geminiCalls, ocrCalls>>

\* The awaited call of extractWithOCR settles.
extractWithOCR ==
    /\ pc \in {"awaitForcedOCR", "awaitAutoOCR"}
    /\ \E text \in ExtractedTextsOf(fileBuffer, mimeType), elapsed \in 0..MaxDelay :
          /\ \E parse \in IF CallsParser(text) THEN ParserOutcomes
                          ELSE {[kind |-> "parsed", parameters |-> <<>>]} :
                ocrResult' = extractWithOCRResult(text, parse, elapsed)
          /\ now' = now + elapsed
    /\ pc' = IF pc = "awaitForcedOCR" THEN "forcedOCR" ELSE "autoOCR"
    /\ UNCHANGED <<options, outside, startTime, extractionLog, geminiResult, thrown, outcome,
                   ret, geminiCalls, ocrCalls>>

\* The forced OCR branch throwing on a failed result, as the automatic one does.
ForcedOCR_Throws ==
    /\ pc = "forcedOCR"
    /\ IF ~ocrResult.success
       THEN /\ extractionLog' = [extractionLog EXCEPT
                                    !.attempts = Append(@, Attempt("ocr", ocrResult))]
            /\ Throw("OCR extraction failed (forced mode)")
       ELSE /\ extractionLog' = [extractionLog EXCEPT
                                    !.attempts = Append(@, Attempt("ocr", ocrResult)),
                                    !.finalMethod = "ocr",
                                    !.totalTime = now - startTime]
            /\ Return(Spread(ocrResult, [extractionLog |-> extractionLog']))
    /\ UNCHANGED <<options, outside, now, startTime, geminiResult, ocrResult, geminiCalls, ocrCalls>>

\* forceMethod === 'ocr', after the await
ForcedOCR ==
    /\ pc = "forcedOCR"
    /\ extractionLog' = [extractionLog EXCEPT
                            !.attempts = Append(@, Attempt("ocr", ocrResult)),
                            !.finalMethod = "ocr",
                            !.totalTime = now - startTime]
    /\ Return(Spread(ocrResult, [extractionLog |-> extractionLog']))
    /\ UNCHANGED <<options, outside, now, startTime, geminiResult, ocrResult, geminiCalls, ocrCalls>>

\* The forced Gemini branch falling through to the OCR fallback on a failure.
ForcedGemini_FallsBack ==
    /\ pc = "forcedGemini"
    /\ IF ~geminiResult.success
       THEN /\ extractionLog' = [extractionLog EXCEPT
                                    !.attempts = Append(@, Attempt("gemini", geminiResult))]
            /\ pc' = "awaitAutoOCR"
            /\ ocrCalls' = ocrCalls + 1
            /\ UNCHANGED <<thrown, outcome, ret>>
       ELSE /\ extractionLog' = [extractionLog EXCEPT
                                    !.attempts = Append(@, Attempt("gemini", geminiResult)),
                                    !.finalMethod = "gemini",
                                    !.totalTime = now - startTime]
            /\ Return(Spread(geminiResult, [extractionLog |-> extractionLog']))
            /\ ocrCalls' = ocrCalls
    /\ UNCHANGED <<options, outside, now, startTime, geminiResult, ocrResult, geminiCalls>>

\* The forced Gemini branch returning the failed result, as the forced OCR one does.
ForcedGemini_ReturnsFailure ==
    /\ pc = "forcedGemini"
    /\ extractionLog' = [extractionLog EXCEPT
                            !.attempts = Append(@, Attempt("gemini", geminiResult)),
                            !.finalMethod = "gemini",
                            !.totalTime = now - startTime]
    /\ Return(Spread(geminiResult, [extractionLog |-> extractionLog']))
    /\ UNCHANGED <<options, outside, now, startTime, geminiResult, ocrResult, geminiCalls, ocrCalls>>

\* forceMethod === 'gemini', after the await
ForcedGemini ==
    /\ pc = "forcedGemini"
    /\ IF ~geminiResult.success
       THEN /\ extractionLog' = [extractionLog EXCEPT
                                    !.attempts = Append(@, Attempt("gemini", geminiResult))]
            /\ Throw("Gemini extraction failed (forced mode)")
       ELSE /\ extractionLog' = [extractionLog EXCEPT
                                    !.attempts = Append(@, Attempt("gemini", geminiResult)),
                                    !.finalMethod = "gemini",
                                    !.totalTime = now - startTime]
            /\ Return(Spread(geminiResult, [extractionLog |-> extractionLog']))
    /\ UNCHANGED <<options, outside, now, startTime, geminiResult, ocrResult, geminiCalls, ocrCalls>>

\* Automatic mode, after the await of extractWithGemini
AutoGemini ==
    /\ pc = "autoGemini"
    /\ IF GeminiSufficient(geminiResult)
       THEN /\ extractionLog' = [extractionLog EXCEPT
                                    !.attempts = Append(@, TimedAttempt("gemini", geminiResult)),
                                    !.finalMethod = "gemini",
                                    !.totalTime = now - startTime]
            /\ Return(Spread(geminiResult, [extractionLog |-> extractionLog']))
            /\ ocrCalls' = ocrCalls
       ELSE /\ extractionLog' = [extractionLog EXCEPT
                                    !.attempts = Append(@, TimedAttempt("gemini", geminiResult))]
            /\ pc' = "awaitAutoOCR"
            /\ ocrCalls' = ocrCalls + 1
            /\ UNCHANGED <<thrown, outcome, ret>>
    /\ UNCHANGED <<options, outside, now, startTime, geminiResult, ocrResult, geminiCalls>>

\* The automatic OCR branch assigning the attempts instead of pushing.
AutoOCR_OverwritesAttempts ==
    /\ pc = "autoOCR"
    /\ IF ~ocrResult.success
       THEN /\ extractionLog' = [extractionLog EXCEPT
                                    !.attempts = <<TimedAttempt("ocr", ocrResult)>>]
            /\ Throw("Both Gemini and OCR extraction failed")
       ELSE /\ extractionLog' = [extractionLog EXCEPT
                                    !.attempts = <<TimedAttempt("ocr", ocrResult)>>,
                                    !.finalMethod = "ocr",
                                    !.totalTime = now - startTime]
            /\ Return(AutoOCRResult(ocrResult, includeInsights, extractionLog'))
    /\ UNCHANGED <<options, outside, now, startTime, geminiResult, ocrResult, geminiCalls, ocrCalls>>

\* Automatic mode, after the await of extractWithOCR
AutoOCR ==
    /\ pc = "autoOCR"
    /\ IF ~ocrResult.success
       THEN /\ extractionLog' = [extractionLog EXCEPT
                                    !.attempts = Append(@, TimedAttempt("ocr", ocrResult))]
            /\ Throw("Both Gemini and OCR extraction failed")
       ELSE /\ extractionLog' = [extractionLog EXCEPT
                                    !.attempts = Append(@, TimedAttempt("ocr", ocrResult)),
                                    !.finalMethod = "ocr",
                                    !.totalTime = now - startTime]
            /\ Return(AutoOCRResult(ocrResult, includeInsights, extractionLog'))
    /\ UNCHANGED <<options, outside, now, startTime, geminiResult, ocrResult, geminiCalls, ocrCalls>>

\* The catch block recording the failure as one more attempt.
Catch_LogsAttempt ==
    /\ pc = "catch"
    /\ extractionLog' = Spread([extractionLog EXCEPT
                                   !.attempts = Append(@, [method |-> "failed", success |-> FALSE]),
                                   !.totalTime = now - startTime],
                               [error |-> thrown])
    /\ Return(FailedResult(thrown, extractionLog'))
    /\ UNCHANGED <<options, outside, now, startTime, geminiResult, ocrResult, geminiCalls, ocrCalls>>

\* The catch block leaving the message out of the log.
Catch_NoLogError ==
    /\ pc = "catch"
    /\ extractionLog' = [extractionLog EXCEPT !.totalTime = now - startTime]
    /\ Return(FailedResult(thrown, extractionLog'))
    /\ UNCHANGED <<options, outside, now, startTime, geminiResult, ocrResult, geminiCalls, ocrCalls>>

\* The catch block.
Catch ==
    /\ pc = "catch"
    /\ extractionLog' = Spread([extractionLog EXCEPT !.totalTime = now - startTime],
                               [error |-> thrown])
    /\ Return(FailedResult(thrown, extractionLog'))
    /\ UNCHANGED <<options, outside, now, startTime, geminiResult, ocrResult, geminiCalls, ocrCalls>>

Next ==
    \/ Start
    \/ extractWithGemini
    \/ extractWithOCR
    \/ ForcedOCR
    \/ ForcedGemini
    \/ AutoGemini
    \/ AutoOCR
    \/ Catch

Spec == Init /\ [][Next]_vars

----------------------------------------------------------------------------
\* The text extraction of extractWithOCR, step by step

\* The state of extractHealthData while the text extraction is studied alone.
CallIdle ==
    /\ pc = "idle"
    /\ forceMethod = NullString
    /\ preferGemini = TRUE
    /\ includeInsights = TRUE
    /\ now = 0
    /\ startTime = 0
    /\ extractionLog = Null
    /\ geminiResult = Null
    /\ ocrResult = Null
    /\ thrown = NoError
    /\ outcome = "pending"
    /\ ret = Null
    /\ geminiCalls = 0
    /\ ocrCalls = 0

call == <<pc, forceMethod, preferGemini, includeInsights, apiKey, mimeType,
          now, startTime, extractionLog, geminiResult, ocrResult, thrown,
          outcome, ret, geminiCalls, ocrCalls, fileBuffer>>

InitOCR ==
    /\ CallIdle
    /\ mimeType \in MimeTypes
    /\ fileBuffer \in Buffers
    /\ apiKey = TRUE
    /\ ScorerIdle
    /\ ConcurrentIdle
    /\ OthersIdle
    /\ tpc = "start"
    /\ parsed = Null
    /\ deskew = Null
    /\ rotation = 0
    /\ quick = Null
    /\ vpc = [i \in Methods |-> "idle"]
    /\ results = [i \in Methods |-> Null]
    /\ bestResult = Null
    /\ extracted = Null
    /\ recognitions = 0
    /\ pipelineRuns = 0
    /\ completions = <<>>

\* return of the text extraction
ReturnText(t) ==
    /\ extracted' = t
    /\ tpc' = "done"

\* The catch block of extractTextFromPDFBuffer.
PdfCatch ==
    /\ ReturnText(Blank)
    /\ UNCHANGED <<pipelineRuns, recognitions>>

\* The test without its trim: data.text.length > 100
HasTextLayer_Untrimmed(t) == t.len > MinimalPdfTextLength

\* data.text.trim().length > 100
HasTextLayer(t) == t.trimLen > MinimalPdfTextLength

\* extractWithOCR choosing the extraction by the mime type
ExtractText ==
    /\ tpc = "start"
    /\ IF mimeType = "application/pdf"
       THEN /\ tpc' = "pdfParse"
            /\ UNCHANGED <<pipelineRuns, recognitions>>
       ELSE /\ tpc' = "firstPass"
            /\ pipelineRuns' = pipelineRuns + 1
            /\ recognitions' = recognitions + 1
    /\ UNCHANGED <<call, scorer, concurrent, others, completions, parsed, deskew, rotation, quick, vpc, results,
                   bestResult, extracted>>

\* extractTextFromPDFBuffer, after the await of pdfParse
PdfParse ==
    /\ tpc = "pdfParse"
    /\ \E o \in PdfOutcomes(fileBuffer) :
          /\ parsed' = o
          /\ IF o.kind = "throws"
             THEN PdfCatch
             ELSE IF HasTextLayer(o.text)
                  THEN /\ ReturnText(o.text)
                       /\ UNCHANGED <<pipelineRuns, recognitions>>
                  ELSE /\ tpc' = "firstPass"
                       /\ pipelineRuns' = pipelineRuns + 1
                       /\ recognitions' = recognitions + 1
                       /\ extracted' = extracted
    /\ UNCHANGED <<call, scorer, concurrent, others, completions, deskew, rotation, quick, vpc, results, bestResult>>

\* deskewImage, after the await of the first Tesseract.recognize
FirstPass ==
    /\ tpc = "firstPass"
    /\ \E o \in EngineOutcomes(fileBuffer) :
          IF o.kind = "throws"
          THEN /\ deskew' = [failed |-> TRUE]
               /\ tpc' = "deskewReturn"
               /\ recognitions' = recognitions
          ELSE /\ deskew' = [failed |-> FALSE, firstLength |-> o.text.len, probes |-> <<>>,
                             bestRotation |-> 0, bestLength |-> o.text.len]
               /\ IF o.text.len < DeskewTextLength
                  THEN tpc' = "probe" /\ recognitions' = recognitions
                  ELSE tpc' = "deskewReturn" /\ recognitions' = recognitions
    /\ UNCHANGED <<call, scorer, concurrent, others, completions, parsed, rotation, quick, vpc, results, bestResult,
                   extracted, pipelineRuns>>

\* A rotation winning when its text is as long as the best so far.
Probed_NotStrict(d, angle, length) ==
    [d EXCEPT !.probes = Append(@, length),
              !.bestLength = IF length >= @ THEN length ELSE @,
              !.bestRotation = IF length >= d.bestLength THEN angle ELSE @]

\* if (rotatedText.length > bestLength) { bestLength = ...; bestRotation = angle }
Probed(d, angle, length) ==
    [d EXCEPT !.probes = Append(@, length),
              !.bestLength = IF length > @ THEN length ELSE @,
              !.bestRotation = IF length > d.bestLength THEN angle ELSE @]

\* deskewImage, one turn of the loop over the rotations: sharp rotates,
\* Tesseract reads
Probe ==
    /\ tpc = "probe"
    /\ LET angle == rotations[Len(deskew.probes) + 1]
       IN  \E t \in TransformOutcomes(fileBuffer) :
              IF t.kind = "throws"
              THEN /\ deskew' = [failed |-> TRUE]
                   /\ tpc' = "deskewReturn"
                   /\ recognitions' = recognitions
              ELSE \E o \in EngineOutcomes(fileBuffer) :
                      /\ recognitions' = recognitions + 1
                      /\ IF o.kind = "throws"
                         THEN /\ deskew' = [failed |-> TRUE]
                              /\ tpc' = "deskewReturn"
                         ELSE /\ deskew' = Probed(deskew, angle, o.text.len)
                              /\ tpc' = IF Len(deskew.probes) + 1 = Len(rotations)
                                        THEN "deskewReturn" ELSE "probe"
    /\ UNCHANGED <<call, scorer, concurrent, others, completions, parsed, rotation, quick, vpc, results, bestResult,
                   extracted, pipelineRuns>>

\* The rotation deskewImage asks of sharp on its return.
DeskewRotation(d) == IF d.failed THEN 0 ELSE d.bestRotation

\* deskewImage returning the buffer, rotated when a rotation won, to
\* extractTextFromImageBuffer; the rotation is not awaited inside the try
\* block of deskewImage, so its exception is the caller's.
DeskewReturn ==
    /\ tpc = "deskewReturn"
    /\ IF DeskewRotation(deskew) > 0
       THEN \E t \in TransformOutcomes(fileBuffer) :
               IF t.kind = "throws"
               THEN ReturnText(Blank) /\ rotation' = rotation
               ELSE /\ rotation' = DeskewRotation(deskew)
                    /\ tpc' = "quickScan"
                    /\ extracted' = extracted
       ELSE /\ rotation' = 0
            /\ tpc' = "quickScan"
            /\ extracted' = extracted
    /\ deskew' = Null
    /\ UNCHANGED <<call, scorer, concurrent, others, completions, parsed, quick, vpc, results, bestResult,
                   recognitions, pipelineRuns>>

\* The quick scan accepted on its score alone.
QuickAccepted_ScoreOnly(score) == score.total > QuickAcceptScore

\* quickScore.total > 150 && quickScore.metrics.medicalTermCount > 3
QuickAccepted(score) ==
    score.total > QuickAcceptScore /\ score.metrics.medicalTermCount > QuickAcceptTerms

\* extractTextFromImageBuffer from the quick buffer to the start of the
\* preprocessing methods
QuickScan ==
    /\ tpc = "quickScan"
    /\ \E t \in TransformOutcomes(fileBuffer) :
          IF t.kind = "throws"
          THEN /\ ReturnText(Blank)
               /\ UNCHANGED <<quick, vpc, recognitions>>
          ELSE \E o \in EngineOutcomes(fileBuffer) :
                  /\ recognitions' = recognitions + 1
                  /\ IF o.kind = "throws"
                     THEN /\ ReturnText(Blank)
                          /\ UNCHANGED <<quick, vpc>>
                     ELSE LET quickScore == calculateQualityScore(o.text, o.confidence)
                          IN  /\ quick' = [text |-> o.text, confidence |-> o.confidence,
                                           score |-> quickScore]
                              /\ IF QuickAccepted(quickScore)
                                 THEN ReturnText(o.text) /\ vpc' = vpc
                                 ELSE /\ vpc' = [i \in Methods |-> "process"]
                                      /\ tpc' = "variants"
                                      /\ extracted' = extracted
    /\ UNCHANGED <<call, scorer, concurrent, others, completions, parsed, deskew, rotation, results, bestResult, pipelineRuns>>

\* One preprocessing method, after the await of method.process
MethodProcess(i) ==
    /\ tpc = "variants"
    /\ vpc[i] = "process"
    /\ \E t \in TransformOutcomes(fileBuffer) :
          IF t.kind = "throws"
          THEN /\ vpc' = [vpc EXCEPT ![i] = "failed"]
               /\ results' = [results EXCEPT ![i] = FailedCandidate(i)]
               /\ completions' = Append(completions, i)
               /\ recognitions' = recognitions
          ELSE /\ vpc' = [vpc EXCEPT ![i] = "recognize"]
               /\ results' = results
               /\ completions' = completions
               /\ recognitions' = recognitions + 1
    /\ UNCHANGED <<call, scorer, concurrent, others, tpc, parsed, deskew, rotation, quick, bestResult,
                   extracted, pipelineRuns>>

\* The exception of Tesseract.recognize reaching the catch block of
\* extractTextFromImageBuffer.
MethodRecognize_Aborts(i) ==
    /\ tpc = "variants"
    /\ vpc[i] = "recognize"
    /\ \E o \in EngineOutcomes(fileBuffer) :
          IF o.kind = "throws"
          THEN /\ vpc' = [vpc EXCEPT ![i] = "failed"]
               /\ results' = results
               /\ ReturnText(Blank)
          ELSE /\ vpc' = [vpc EXCEPT ![i] = "done"]
               /\ results' = [results EXCEPT ![i] = Candidate(i, o)]
               /\ UNCHANGED <<tpc, extracted>>
    /\ completions' = Append(completions, i)
    /\ UNCHANGED <<call, scorer, concurrent, others, parsed, deskew, rotation, quick, bestResult,
                   recognitions, pipelineRuns>>

\* One preprocessing method, after the await of Tesseract.recognize
MethodRecognize(i) ==
    /\ tpc = "variants"
    /\ vpc[i] = "recognize"
    /\ \E o \in EngineOutcomes(fileBuffer) :
          IF o.kind = "throws"
          THEN /\ vpc' = [vpc EXCEPT ![i] = "failed"]
               /\ results' = [results EXCEPT ![i] = FailedCandidate(i)]
          ELSE /\ vpc' = [vpc EXCEPT ![i] = "done"]
               /\ results' = [results EXCEPT ![i] = Candidate(i, o)]
    /\ UNCHANGED <<tpc, extracted>>
    /\ completions' = Append(completions, i)
    /\ UNCHANGED <<call, scorer, concurrent, others, parsed, deskew, rotation, quick, bestResult,
                   recognitions, pipelineRuns>>

\* The reduce running over the results in the order the methods settled.
Select_SettlingOrder ==
    /\ tpc = "variants"
    /\ \A i \in Methods : vpc[i] \in {"done", "failed"}
    /\ bestResult' = Reduce([k \in Methods |-> results[completions[k]]])
    /\ ReturnText(FloorText(bestResult'.text))
    /\ UNCHANGED <<call, scorer, concurrent, others, completions, parsed, deskew, rotation,
                   quick, vpc, results, recognitions, pipelineRuns>>

\* extractTextFromImageBuffer, after the await of Promise.all
Select ==
    /\ tpc = "variants"
    /\ \A i \in Methods : vpc[i] \in {"done", "failed"}
    /\ bestResult' = Reduce(results)
    /\ ReturnText(FloorText(bestResult'.text))
    /\ UNCHANGED <<call, scorer, concurrent, others, completions, parsed, deskew, rotation, quick, vpc, results,
                   recognitions, pipelineRuns>>

NextOCR ==
    \/ ExtractText
    \/ PdfParse
    \/ FirstPass
    \/ Probe
    \/ DeskewReturn
    \/ QuickScan
    \/ \E i \in Methods : MethodProcess(i)
    \/ \E i \in Methods : MethodRecognize(i)
    \/ Select

SpecOCR == InitOCR /\ [][NextOCR]_vars

----------------------------------------------------------------------------
\* calculateQualityScore applied to two texts read with one confidence

\* Two texts of one length and one count of table patterns.
ScorePairs ==
    { <<[text |-> p[1], confidence |-> c], [text |-> p[2], confidence |-> c]>> :
        p \in { q \in ScoreTexts \X ScoreTexts :
                   q[1].len = q[2].len /\ q[1].tablePatterns = q[2].tablePatterns },
        c \in Confidences }

InitScore ==
    /\ CallIdle
    /\ mimeType = "image/png"
    /\ fileBuffer = "document"
    /\ apiKey = TRUE
    /\ PipelineIdle
    /\ ConcurrentIdle
    /\ OthersIdle
    /\ scoreArgs \in ScorePairs
    /\ scoreResult = <<>>

\* One call of calculateQualityScore
Score ==
    /\ Len(scoreResult) < Len(scoreArgs)
    /\ LET args == scoreArgs[Len(scoreResult) + 1]
       IN  scoreResult' = Append(scoreResult, calculateQualityScore(args.text, args.confidence))
    /\ UNCHANGED <<call, pipeline, concurrent, others, scoreArgs>>

NextScore == Score

SpecScore == InitScore /\ [][NextScore]_vars

----------------------------------------------------------------------------
\* Two calls of extractHealthData in flight at once

Calls == {1, 2}

\* What the collaborators of one call come to: the answer of Gemini, the
\* text and the parameters of the OCR, the time each of them takes.
CallOutcomes ==
    [gemini : { [kind |-> "apiError"], [kind |-> "parsed", parameters |-> <<>>],
                [kind |-> "parsed", parameters |-> MkParams(<<"High">>)] },
     text : { Sentinel, Text(101, 101) },
     parse : { [kind |-> "throws"], [kind |-> "parsed", parameters |-> MkParams(<<"Normal">>)] },
     elapsed : 0..MaxDelay]

\* The arguments of one call and what its collaborators come to.
CallInputs ==
    [forceMethod : {NullString, "gemini", "ocr"},
     includeInsights : {TRUE},
     preferGemini : {TRUE},
     outcomes : { o \in CallOutcomes : o.text = Sentinel => o.parse.kind = "parsed" }]

\* A call at its entry.
NewCall(input) ==
    [input |-> input, pc |-> "start", now |-> 0, startTime |-> 0,
     geminiResult |-> Null, ocrResult |-> Null, thrown |-> NoError,
     outcome |-> "pending", ret |-> Null, overlapped |-> FALSE]

\* One extractionLog object of all the calls.
LogOf_Shared(c) == 1

\* The extractionLog object of a call: the object its line 474 creates.
LogOf(c) == c

\* throw new Error(message) at the position of the call
CallThrows(st, message, log) ==
    [st |-> IF InTry(st.pc)
            THEN [st EXCEPT !.thrown = message, !.pc = "catch"]
            ELSE [st EXCEPT !.thrown = message, !.pc = "done", !.outcome = "rejected"],
     log |-> log]

\* return value
CallReturns(st, value, log) ==
    [st |-> [st EXCEPT !.ret = value, !.pc = "done", !.outcome = "fulfilled"],
     log |-> log]

\* The log after the push of an attempt that ends the call.
Finalized(log, attempt, method, st) ==
    [log EXCEPT !.attempts = Append(@, attempt),
                !.finalMethod = method,
                !.totalTime = st.now - st.startTime]

Pushed(log, attempt) == [log EXCEPT !.attempts = Append(@, attempt)]

\* One call from where it stands to its next await or to its end, with the
\* extractionLog object it names.
StepCall(st, log, key) ==
    LET in == st.input
        o == in.outcomes
    IN  CASE st.pc = "start" ->
                [st |-> [st EXCEPT !.startTime = st.now,
                                   !.pc = Dispatch(in.forceMethod, in.preferGemini, key)],
                 log |-> [attempts |-> <<>>, finalMethod |-> NullString, totalTime |-> 0]]
          [] st.pc \in {"awaitForcedGemini", "awaitAutoGemini"} ->
                [st |-> [st EXCEPT !.geminiResult = extractWithGeminiResult(o.gemini, o.elapsed),
                                   !.now = @ + o.elapsed,
                                   !.pc = IF st.pc = "awaitForcedGemini" THEN "forcedGemini"
                                          ELSE "autoGemini"],
                 log |-> log]
          [] st.pc \in {"awaitForcedOCR", "awaitAutoOCR"} ->
                [st |-> [st EXCEPT !.ocrResult = extractWithOCRResult(o.text, o.parse, o.elapsed),
                                   !.now = @ + o.elapsed,
                                   !.pc = IF st.pc = "awaitForcedOCR" THEN "forcedOCR"
                                          ELSE "autoOCR"],
                 log |-> log]
          [] st.pc = "forcedOCR" ->
                LET done == Finalized(log, Attempt("ocr", st.ocrResult), "ocr", st)
                IN  CallReturns(st, Spread(st.ocrResult, [extractionLog |-> done]), done)
          [] st.pc = "forcedGemini" ->
                IF ~st.geminiResult.success
                THEN CallThrows(st, "Gemini extraction failed (forced mode)",
                                Pushed(log, Attempt("gemini", st.geminiResult)))
                ELSE LET done == Finalized(log, Attempt("gemini", st.geminiResult), "gemini", st)
                     IN  CallReturns(st, Spread(st.geminiResult, [extractionLog |-> done]), done)
          [] st.pc = "autoGemini" ->
                IF GeminiSufficient(st.geminiResult)
                THEN LET done == Finalized(log, TimedAttempt("gemini", st.geminiResult),
                                           "gemini", st)
                     IN  CallReturns(st, Spread(st.geminiResult, [extractionLog |-> done]), done)
                ELSE [st |-> [st EXCEPT !.pc = "awaitAutoOCR"],
                      log |-> Pushed(log, TimedAttempt("gemini", st.geminiResult))]
          [] st.pc = "autoOCR" ->
                IF ~st.ocrResult.success
                THEN CallThrows(st, "Both Gemini and OCR extraction failed",
                                Pushed(log, TimedAttempt("ocr", st.ocrResult)))
                ELSE LET done == Finalized(log, TimedAttempt("ocr", st.ocrResult), "ocr", st)
                     IN  CallReturns(st, AutoOCRResult(st.ocrResult, in.includeInsights, done),
                                     done)
          [] st.pc = "catch" ->
                LET done == Spread([log EXCEPT !.totalTime = st.now - st.startTime],
                                   [error |-> st.thrown])
                IN  CallReturns(st, FailedResult(st.thrown, done), done)

InitCalls ==
    /\ CallIdle
    /\ mimeType = "image/png"
    /\ fileBuffer = "document"
    /\ apiKey \in BOOLEAN
    /\ PipelineIdle
    /\ ScorerIdle
    /\ OthersIdle
    /\ calls \in [Calls -> { NewCall(i) : i \in CallInputs }]
    /\ logs = [c \in Calls |-> Null]

InFlight(c) == calls[c].pc \notin {"start", "done"}

\* The event loop running one call to its next await
Run(c) ==
    /\ calls[c].pc # "done"
    /\ LET next == StepCall(calls[c], logs[LogOf(c)], apiKey)
       IN  /\ calls' = [calls EXCEPT
                           ![c] = [next.st EXCEPT
                                      !.overlapped = @ \/ \E d \in Calls \ {c} : InFlight(d)]]
           /\ logs' = [logs EXCEPT ![LogOf(c)] = next.log]
    /\ UNCHANGED <<call, pipeline, scorer, others>>

NextCalls == \E c \in Calls : Run(c)

SpecCalls == InitCalls /\ [][NextCalls]_vars

----------------------------------------------------------------------------
\* POST /api/upload

\* An extractionLog of a result, as far as the handler reads it.
UploadLog(method) ==
    [attempts |-> <<[method |-> method, success |-> TRUE]>>,
     finalMethod |-> method, totalTime |-> 0]

\* What extractHealthData resolves with: the results of the Gemini and of
\* the OCR branches and the object of its catch block.
ExtractionResults ==
    { FailedResult("Both Gemini and OCR extraction failed",
                   [attempts |-> <<>>, finalMethod |-> NullString, totalTime |-> 0,
                    error |-> "Both Gemini and OCR extraction failed"]) }
    \cup { Spread(GeminiSuccess([kind |-> "parsed", parameters |-> ps], 0),
                  [extractionLog |-> UploadLog("gemini")]) : ps \in ParamLists }
    \cup { Spread(OCRFailureResult(0), [extractionLog |-> UploadLog("ocr")]) }
    \cup { Spread(OCRSuccessResult(t, ps, 0), [extractionLog |-> UploadLog("ocr")]) :
             t \in {Sentinel, Text(101, 101)}, ps \in ParamLists }
    \cup { AutoOCRResult(OCRSuccessResult(Text(101, 101), ps, 0), TRUE, UploadLog("ocr")) :
             ps \in ParamLists \ {<<>>} }

\* value || fallback of a property holding a boolean
OrFalse(obj, key) == IF Has(obj, key) THEN obj[key] ELSE FALSE

\* reportData of lines 383-412
ReportData(r) ==
    LET base == [extractedText |-> IF Has(r, "extractedText") /\ r.extractedText.len > 0
                                   THEN r.extractedText ELSE Sentinel,
                 healthParameters |-> IF Has(r, "healthParameters")
                                      THEN r.healthParameters ELSE <<>>,
                 extractionMethod |-> r.method,
                 isScannedDocument |-> OrFalse(r, "isScannedDocument"),
                 requiresManualEntry |-> OrFalse(r, "requiresManualEntry"),
                 processingStatus |-> IF OrFalse(r, "requiresManualEntry")
                                      THEN "manual_entry_needed" ELSE "completed",
                 extractionLog |-> r.extractionLog]
        insights == IF Has(r, "aiInsights") /\ ~IsNull(r.aiInsights)
                    THEN [aiInsights |-> r.aiInsights] ELSE Null
        gemini == IF r.method = "gemini"
                  THEN Spread(IF Has(r, "patientInfo")
                              THEN [patientInfo |-> r.patientInfo] ELSE Null,
                              IF Has(r, "metadata")
                              THEN [geminiMetadata |-> r.metadata] ELSE Null)
                  ELSE Null
    IN  Spread(Spread(base, insights), gemini)

\* The failed report stored as one waiting for manual entry.
FailedReport_ManualEntryNeeded(message) ==
    [extractedText |-> Sentinel,
     healthParameters |-> <<>>,
     extractionMethod |-> "failed",
     isScannedDocument |-> TRUE,
     requiresManualEntry |-> TRUE,
     processingStatus |-> "manual_entry_needed",
     extractionLog |-> [error |-> message, totalTime |-> 0]]

\* The report of lines 467-482.
FailedReport(message) ==
    [extractedText |-> Sentinel,
     healthParameters |-> <<>>,
     extractionMethod |-> "failed",
     isScannedDocument |-> TRUE,
     requiresManualEntry |-> TRUE,
     processingStatus |-> "failed",
     extractionLog |-> [error |-> message, totalTime |-> 0]]

ParameterCount(r) == IF Has(r, "healthParameters") THEN Len(r.healthParameters) ELSE 0

\* The body of lines 420-456; the extractionLog goes with it in development.
ResponseBody(r, reportId, development) ==
    LET base == Spread([success |-> TRUE,
                        reportId |-> reportId,
                        extractionMethod |-> r.method,
                        extractedParameterCount |-> ParameterCount(r)],
                       IF Has(r, "healthParameters")
                       THEN [healthParameters |-> r.healthParameters] ELSE Null)
        insights == IF Has(r, "aiInsights") /\ ~IsNull(r.aiInsights)
                    THEN [aiInsights |->
                             [summary |-> r.aiInsights.summary,
                              riskLevel |-> r.aiInsights.riskLevel,
                              outlierCount |-> Len(r.aiInsights.outliers),
                              recommendationCount |-> Len(r.aiInsights.recommendations)]]
                    ELSE Null
        flags == IF OrFalse(r, "requiresManualEntry")
                 THEN [requiresManualEntry |-> TRUE,
                       message |-> IF r.method = "failed"
                                   THEN "Could not automatically extract data"
                                   ELSE "Limited data extracted"]
                 ELSE IF OrFalse(r, "isScannedDocument")
                      THEN [isScannedDocument |-> TRUE,
                            message |-> "Extracted from scanned document"]
                      ELSE [message |-> IF r.method = "gemini"
                                        THEN "Successfully processed with AI"
                                        ELSE "Successfully processed with OCR"]
        log == IF development THEN [extractionLog |-> r.extractionLog] ELSE Null
    IN  Spread(Spread(Spread(base, insights), flags), log)

\* The body of lines 486-495.
FailedResponseBody(message, reportId, development) ==
    Spread([success |-> TRUE,
            reportId |-> reportId,
            requiresManualEntry |-> TRUE,
            healthParameters |-> <<>>,
            extractedParameterCount |-> 0,
            message |-> "Processing failed. Please enter data manually."],
           IF development THEN [error |-> message] ELSE Null)

Respond(code, body) ==
    /\ response' = [status |-> code, body |-> body]
    /\ rpc' = "done"

InitUpload ==
    /\ CallIdle
    /\ mimeType \in MimeTypes
    /\ fileBuffer = "document"
    /\ apiKey = TRUE
    /\ PipelineIdle
    /\ ScorerIdle
    /\ ConcurrentIdle
    /\ SanitizerIdle
    /\ rpc = "start"
    /\ file \in BOOLEAN
    /\ extraction = Null
    /\ reports = <<>>
    /\ response = Null
    /\ caught = <<>>

\* The handler up to the await of extractHealthData
UploadStart ==
    /\ rpc = "start"
    /\ IF ~file
       THEN Respond(400, [error |-> "No file uploaded"])
       ELSE rpc' = "awaitExtract" /\ response' = response
    /\ UNCHANGED <<call, pipeline, scorer, concurrent, sanitizer, file, extraction, reports,
                   caught>>

\* From the result of extractHealthData to the await of report.save(); the
\* validation, the statistics and the Report constructor run in between and
\* any of them may throw, which leads to the await of failedReport.save().
UploadExtracted ==
    /\ rpc = "awaitExtract"
    /\ \E r \in ExtractionResults, threw \in BOOLEAN :
          /\ extraction' = r
          /\ IF threw
             THEN /\ caught' = Append(caught, "processing failed")
                  /\ rpc' = "awaitFailedSave"
             ELSE /\ caught' = caught
                  /\ rpc' = "awaitSave"
    /\ UNCHANGED <<call, pipeline, scorer, concurrent, sanitizer, file, reports, response>>

\* From the settling of report.save() to the answer, or to the await of
\* failedReport.save()
UploadSaved ==
    /\ rpc = "awaitSave"
    /\ \E saved \in BOOLEAN, development \in BOOLEAN :
          IF saved
          THEN /\ reports' = Append(reports, ReportData(extraction))
               /\ Respond(200, ResponseBody(extraction, Len(reports'), development))
               /\ caught' = caught
          ELSE /\ caught' = Append(caught, "save failed")
               /\ rpc' = "awaitFailedSave"
               /\ UNCHANGED <<reports, response>>
    /\ UNCHANGED <<call, pipeline, scorer, concurrent, sanitizer, file, extraction>>

\* From the settling of failedReport.save() to the answer
UploadFailedSaved ==
    /\ rpc = "awaitFailedSave"
    /\ \E saved \in BOOLEAN, development \in BOOLEAN :
          IF saved
          THEN /\ reports' = Append(reports, FailedReport(caught[1]))
               /\ Respond(200, FailedResponseBody(caught[1], Len(reports'), development))
               /\ caught' = caught
          ELSE /\ caught' = Append(caught, "save failed")
               /\ Respond(500, Spread([error |-> "Failed to process uploaded file"],
                                      IF development THEN [details |-> caught[1]] ELSE Null))
               /\ reports' = reports
    /\ UNCHANGED <<call, pipeline, scorer, concurrent, sanitizer, file, extraction>>

NextUpload ==
    \/ UploadStart
    \/ UploadExtracted
    \/ UploadSaved
    \/ UploadFailedSaved

SpecUpload == InitUpload /\ [][NextUpload]_vars

----------------------------------------------------------------------------
\* One call of extractHealthData, or one text extraction, whose awaited
\* calls all settle

InitSettling == Init \/ InitOCR

\* The collaborators hand back at most one health parameter: the control
\* flow reads of a list only whether it is empty.
ShortLists ==
    /\ Has(geminiResult, "healthParameters") => Len(geminiResult.healthParameters) <= 1
    /\ Has(ocrResult, "healthParameters") => Len(ocrResult.healthParameters) <= 1

NextSettling == (Next \/ NextOCR) /\ ShortLists'

\* Every awaited collaborator returns or throws: a step that can be taken
\* is taken.
SpecSettling == InitSettling /\ [][NextSettling]_vars /\ WF_vars(NextSettling)

----------------------------------------------------------------------------
\* Properties of extractHealthData

Done == pc = "done"
AutoMode == forceMethod \notin {"gemini", "ocr"}
attempts == extractionLog.attempts
LastAttempt == attempts[Len(attempts)]

IsTrue(obj, key) == Has(obj, key) /\ obj[key] = TRUE
IsEmptyList(obj, key) == Has(obj, key) /\ Len(obj[key]) = 0

\* C1: extractHealthData never rejects; once it is done it has returned an
\* object, and when the last method it ran reported a failure, or an Error
\* was thrown inside it, the object says success = false.
C1_NeverThrows ==
    /\ outcome # "rejected"
    /\ Done =>
          /\ outcome = "fulfilled"
          /\ Has(ret, "success") /\ Has(ret, "extractionLog")
          /\ (thrown # NoError \/ ~LastAttempt.success) => ret.success = FALSE
          /\ thrown # NoError => ret.error = thrown

\* The parser threw inside extractWithOCR after Gemini had failed, and the
\* caller still got a result.
C1_Witness ==
    /\ Done /\ outcome = "fulfilled"
    /\ geminiCalls = 1 /\ ~geminiResult.success
    /\ ocrCalls = 1 /\ Has(ocrResult, "error")
    /\ thrown = "Both Gemini and OCR extraction failed"

\* C2: in every returned result requiresManualEntry is true if and only if
\* healthParameters has length 0.
C2_ManualEntryIffNoParameters ==
    Done => (IsTrue(ret, "requiresManualEntry") <=> IsEmptyList(ret, "healthParameters"))

\* C3: the log holds at most 2 attempts in automatic mode and at most 1 in a
\* forced mode at any time, and exactly 1 in a forced mode once the call is done.
C3_AttemptCount ==
    ~IsNull(extractionLog) =>
        /\ AutoMode => Len(attempts) <= 2
        /\ ~AutoMode => Len(attempts) <= 1
        /\ (Done /\ ~AutoMode) => Len(attempts) = 1

\* Both methods were attempted in automatic mode.
C3_Witness ==
    Done /\ forceMethod = NullString /\ Len(attempts) = 2

\* C4: with forceMethod 'ocr' extractWithGemini is never called, and with
\* forceMethod 'gemini' extractWithOCR is never called.
C4_ForcedCallsOnlyForced ==
    /\ forceMethod = "ocr" => geminiCalls = 0
    /\ forceMethod = "gemini" => ocrCalls = 0

\* The forced Gemini method failed and OCR was left alone.
C4_Witness ==
    /\ Done /\ forceMethod = "gemini" /\ ~geminiResult.success
    /\ geminiCalls = 1 /\ ocrCalls = 0

\* C5: the method of every returned result is 'gemini', 'ocr' or 'failed'.
C5_MethodEnum ==
    Done => Has(ret, "method") /\ ret.method \in {"gemini", "ocr", "failed"}

\* The forced OCR method handed back its error object.
C5_Witness ==
    Done /\ forceMethod = "ocr" /\ Has(ocrResult, "error") /\ ret.method = "ocr"

\* C6: in automatic mode, when extractWithOCR reports success = false the
\* call returns method 'failed', requiresManualEntry, no parameters and the
\* same error message in the result and in extractionLog.error.
C6_AutoTotalFailure ==
    (Done /\ AutoMode /\ ocrCalls = 1 /\ ~ocrResult.success) =>
        /\ outcome = "fulfilled"
        /\ ret.method = "failed"
        /\ ret.requiresManualEntry = TRUE
        /\ ret.healthParameters = <<>>
        /\ ret.error = "Both Gemini and OCR extraction failed"
        /\ Has(ret.extractionLog, "error")
        /\ ret.extractionLog.error = ret.error

\* OCR read a long text without one parameter after Gemini found nothing.
C6_Witness ==
    /\ Done /\ AutoMode /\ geminiCalls = 1 /\ geminiResult.success
    /\ ocrCalls = 1 /\ ~ocrResult.success /\ Has(ocrResult, "healthParameters")
    /\ ret.method = "failed"

\* C7: in automatic mode, once the Gemini attempt is judged, the Gemini
\* result is the final one, with OCR not called, exactly when Gemini
\* succeeded with at least 1 parameter; otherwise OCR has been called.
C7_GeminiUsedIffSufficient ==
    (AutoMode /\ geminiCalls = 1 /\ pc \notin {"awaitAutoGemini", "autoGemini"}) =>
        LET sufficient == geminiResult.success /\ Len(geminiResult.healthParameters) >= 1
        IN  /\ sufficient <=> (Done /\ ret.method = "gemini" /\ ocrCalls = 0)
            /\ ~sufficient => ocrCalls = 1
            /\ (~sufficient /\ Done) =>
                   [i \in 1..Len(attempts) |-> attempts[i].method] = <<"gemini", "ocr">>

\* Gemini succeeded with no parameter and OCR ran next.
C7_Witness ==
    /\ AutoMode /\ pc = "awaitAutoOCR" /\ geminiCalls = 1
    /\ geminiResult.success /\ Len(geminiResult.healthParameters) = 0
    /\ ocrCalls = 1

\* C8: with forceMethod 'gemini' a failed Gemini call ends in a 'failed'
\* result without parameters, flagged for manual entry, after the single
\* failed Gemini attempt and no OCR call.
C8_ForcedGeminiFailure ==
    (Done /\ forceMethod = "gemini" /\ ~geminiResult.success) =>
        /\ ret.method = "failed"
        /\ ret.healthParameters = <<>>
        /\ ret.requiresManualEntry = TRUE
        /\ ret.extractionLog.attempts = <<[method |-> "gemini", success |-> FALSE]>>
        /\ ocrCalls = 0

\* The Gemini answer could not be parsed in forced mode.
C8_Witness ==
    /\ Done /\ forceMethod = "gemini"
    /\ ~geminiResult.success /\ geminiResult.error = "Unexpected token"
    /\ ret.method = "failed"

\* C9: with forceMethod 'ocr' the call runs extractWithOCR alone, logs one
\* attempt and returns finalMethod 'ocr' and method 'ocr', never 'failed',
\* whatever extractWithOCR reported.
C9_ForcedOCR ==
    (Done /\ forceMethod = "ocr") =>
        /\ ocrCalls = 1 /\ geminiCalls = 0
        /\ ret.extractionLog.attempts = <<[method |-> "ocr", success |-> ocrResult.success]>>
        /\ ret.extractionLog.finalMethod = "ocr"
        /\ ret.method = "ocr"
        /\ ret.success = ocrResult.success
        /\ thrown = NoError

\* The forced OCR method reported a failure.
C9_Witness ==
    /\ Done /\ forceMethod = "ocr" /\ ~ocrResult.success
    /\ ret.extractionLog.finalMethod = "ocr"

\* C10: whenever OCR produced the final result with success and
\* includeInsights is true, the result carries the basic insights made from
\* its parameters.
C10_InsightsWheneverOCRSucceeds ==
    (Done /\ ret.method = "ocr" /\ ret.success /\ includeInsights) =>
        /\ Has(ret, "aiInsights")
        /\ ret.aiInsights = generateBasicInsights(ret.healthParameters)

\* The methods of the attempts, in the order of the log.
AttemptMethods(log) == [i \in 1..Len(log.attempts) |-> log.attempts[i].method]

\* The methods invoked so far, in the order of their invocation.
InvokedMethods ==
    (IF geminiCalls > 0 THEN <<"gemini">> ELSE <<>>) \o (IF ocrCalls > 0 THEN <<"ocr">> ELSE <<>>)

\* C11: a step of extractHealthData leaves the attempts alone or appends one
\* entry, that of the method whose call it has just awaited; extractWithGemini
\* is never invoked after extractWithOCR; and once the call is done the log
\* lists the invoked methods, each once, in the order of invocation.
C11_AttemptsAppendOnly ==
    [][ /\ ~IsNull(extractionLog) =>
              LET old == extractionLog.attempts
                  new == extractionLog'.attempts
              IN  \/ new = old
                  \/ /\ Len(new) = Len(old) + 1
                     /\ SubSeq(new, 1, Len(old)) = old
                     /\ new[Len(new)].method =
                            IF pc \in {"forcedGemini", "autoGemini"} THEN "gemini" ELSE "ocr"
                     /\ pc \in {"forcedGemini", "autoGemini", "forcedOCR", "autoOCR"}
        /\ geminiCalls' > geminiCalls => ocrCalls = 0
        /\ geminiCalls' <= 1 /\ ocrCalls' <= 1
        /\ pc' = "done" => AttemptMethods(extractionLog') = InvokedMethods'
      ]_vars

\* Both methods ran and the log lists Gemini before OCR.
C11_Witness ==
    Done /\ AttemptMethods(extractionLog) = <<"gemini", "ocr">> /\ ret.method = "ocr"

\* C12: every entry of the attempts carries a processing time.
C12_AttemptsCarryProcessingTime ==
    ~IsNull(extractionLog) =>
        \A i \in 1..Len(attempts) : Has(attempts[i], "processingTime")

\* The text the OCR method classified, recovered from its result.
RecognizedText == ocrResult.extractedText

\* C13: in a result of the OCR method isScannedDocument is true if and only
\* if the recognized text is empty or shorter than the floor at which the
\* image pipeline replaces its best text by ' '.
C13_ScannedIffBelowFloor ==
    (~IsNull(ocrResult) /\ Has(ocrResult, "isScannedDocument")) =>
        (ocrResult.isScannedDocument <=>
            (RecognizedText.trimLen = 0 \/ RecognizedText.trimLen < MinimalLengthFloor))

\* C13 as amended: isScannedDocument is true if and only if the trimmed
\* recognized text is empty or shorter than 50 characters.
C13_ScannedIffBelowFifty ==
    (~IsNull(ocrResult) /\ Has(ocrResult, "isScannedDocument")) =>
        (ocrResult.isScannedDocument <=>
            (RecognizedText.trimLen = 0 \/ RecognizedText.trimLen < 50))

\* A text of 11 characters, above the floor of the pipeline, counted as scanned.
C13_Witness ==
    /\ ~IsNull(ocrResult) /\ Has(ocrResult, "isScannedDocument")
    /\ ocrResult.isScannedDocument
    /\ RecognizedText.trimLen = 11

----------------------------------------------------------------------------
\* Properties of two calls in flight at once

RECURSIVE RunAlone(_, _, _)
\* The call run from its entry to its end with no other call.
RunAlone(st, log, key) ==
    IF st.pc = "done" THEN [st |-> st, log |-> log]
    ELSE LET next == StepCall(st, log, key)
         IN  RunAlone(next.st, next.log, key)

Alone(c) == RunAlone(NewCall(calls[c].input), Null, apiKey)

IsPrefix(s, t) == Len(s) <= Len(t) /\ \A i \in 1..Len(s) : s[i] = t[i]

\* C20: whatever the interleaving of two calls, the extractionLog of each
\* holds only attempts of its own call, in the order of the call run alone,
\* and each call ends as it does when run alone with the same outcomes of
\* its collaborators: the same result, log included.
C20_CallsShareNoState ==
    \A c \in Calls :
        /\ ~IsNull(logs[c]) => IsPrefix(logs[c].attempts, Alone(c).log.attempts)
        /\ calls[c].pc = "done" =>
              /\ calls[c].outcome = Alone(c).st.outcome
              /\ calls[c].ret = Alone(c).st.ret
              /\ logs[c] = Alone(c).log

C20_Witness ==
    /\ \A c \in Calls : calls[c].pc = "done" /\ calls[c].overlapped
    /\ Len(logs[1].attempts) = 2
    /\ Len(logs[2].attempts) = 2
    /\ calls[1].ret.method = "ocr"
    /\ calls[2].ret.method = "failed"

----------------------------------------------------------------------------
\* Properties of calculateQualityScore

BothScored == Len(scoreResult) = 2

\* The second text has at least the medical terms and the unit patterns of
\* the first, and its length, table patterns and confidence.
NoFewerTermsAndUnits ==
    LET a == scoreArgs[1]
        b == scoreArgs[2]
    IN  /\ a.text.len = b.text.len
        /\ a.text.tablePatterns = b.text.tablePatterns
        /\ a.confidence = b.confidence
        /\ a.text.medicalTermCount <= b.text.medicalTermCount
        /\ a.text.unitPatterns <= b.text.unitPatterns

\* C19: with the length, the table patterns and the confidence fixed, a text
\* with no fewer medical terms and no fewer unit patterns has no smaller
\* total.
C19_TotalMonotone ==
    (BothScored /\ NoFewerTermsAndUnits) => scoreResult[1].total <= scoreResult[2].total

C19_Witness ==
    /\ BothScored
    /\ NoFewerTermsAndUnits
    /\ scoreArgs[1].text.medicalTermCount = 3
    /\ scoreArgs[2].text.medicalTermCount = 4
    /\ scoreArgs[1].text.unitPatterns < scoreArgs[2].text.unitPatterns
    /\ scoreResult[1].total < scoreResult[2].total

----------------------------------------------------------------------------
\* Properties of the text extraction

\* The text extraction returns ' ' for a buffer without a byte.
EmptyBufferIsBlank ==
    (tpc = "done" /\ fileBuffer = "empty") => extracted = Blank

Extracted == tpc = "done"
Selected == tpc = "done" /\ ~IsNull(bestResult)
ParseThrew == ~IsNull(parsed) /\ parsed.kind = "throws"

\* C14: when pdfParse throws, the text extraction runs the image OCR
\* pipeline on the buffer: at its return the pipeline has been invoked.
C14_ParseFailureRunsPipeline ==
    (Extracted /\ ParseThrew) => pipelineRuns >= 1

Completed(i) == vpc[i] \in {"done", "failed"}
Remaining == { i \in Methods : vpc[i] = "done" }
BestOf(candidates) ==
    { i \in candidates :
        \A j \in candidates : results[j].score.total <= results[i].score.total }

\* C15: an exception in one preprocessing method leaves the others
\* running: the failed method's candidate has the empty text and the score
\* 0, the extraction returns only after every method has completed, and what
\* it returns is the text of a best candidate among the methods that did not
\* fail (as line 696 returns it: the text when longer than 10 characters,
\* otherwise ' ').
C15_FailedVariantIsOutcompeted ==
    /\ (Extracted /\ \E i \in Methods : vpc[i] # "idle") =>
          /\ \A i \in Methods : Completed(i)
          /\ ~IsNull(bestResult)
    /\ \A i \in Methods :
          vpc[i] = "failed" =>
             /\ results[i].text.len = 0
             /\ results[i].score.total = 0
    /\ (Selected /\ Remaining # {} /\ Remaining # Methods) =>
          \E i \in BestOf(Remaining) :
             /\ bestResult.text = results[i].text
             /\ extracted = IF results[i].text.len > 10 THEN results[i].text ELSE Blank

C15_Witness ==
    /\ Selected
    /\ vpc[1] = "failed"
    /\ vpc[2] = "done"
    /\ results[2].score.total > 0
    /\ extracted = results[2].text

\* C16: the candidate selected has the highest total of all the methods'
\* candidates (of totals 120 and 95, the one of 120), and of the candidates
\* with that total it is the one listed first.
C16_HighestTotalFirstOnTies ==
    Selected =>
       \E i \in BestOf(Methods) :
          /\ bestResult = results[i]
          /\ \A j \in BestOf(Methods) : i <= j

C16_Witness ==
    /\ Selected
    /\ results[1].score.total = 950
    /\ results[2].score.total = 1200
    /\ extracted = results[2].text
    /\ extracted # results[1].text

RECURSIVE MaxOf(_)
MaxOf(lengths) ==
    IF Len(lengths) = 1 THEN lengths[1]
    ELSE LET m == MaxOf(Tail(lengths))
         IN  IF lengths[1] >= m THEN lengths[1] ELSE m

\* The rotation whose text is longer than the first pass's and than every
\* other rotation's read before it, and as long as every one read after it.
LongestRotation(d) ==
    IF MaxOf(d.probes) <= d.firstLength THEN 0
    ELSE rotations[CHOOSE k \in 1..Len(d.probes) :
                      /\ d.probes[k] = MaxOf(d.probes)
                      /\ \A j \in 1..(k - 1) : d.probes[j] < d.probes[k]]

\* C17: a first pass of fewer than 50 characters has the three rotations
\* probed and the rotation with the longest text, when longer than the first
\* pass's, applied; a first pass of 50 characters or more has none probed
\* and the buffer unrotated; the quick scan and the preprocessing methods
\* start after that and the rotation stays.
C17_RotationBeforeScan ==
    [][ /\ (tpc = "deskewReturn" /\ tpc' = "quickScan" /\ ~deskew.failed) =>
              IF deskew.firstLength < 50
              THEN /\ Len(deskew.probes) = 3
                   /\ rotation' = LongestRotation(deskew)
              ELSE /\ deskew.probes = <<>>
                   /\ rotation' = 0
        /\ tpc \in {"firstPass", "probe", "deskewReturn"} =>
              /\ IsNull(quick)
              /\ \A i \in Methods : vpc[i] = "idle"
        /\ tpc \in {"quickScan", "variants"} => rotation' = rotation
      ]_vars

C17_Witness ==
    /\ tpc = "variants"
    /\ rotation = 180
    /\ \E i \in Methods : vpc[i] = "recognize"


ParseReturned == ~IsNull(parsed) /\ parsed.kind = "parsed"

\* C21: once pdfParse has returned the text layer, the image OCR pipeline
\* has been invoked exactly when the trimmed text has at most 100
\* characters, and then once, on the buffer of the call; a longer text has
\* been returned as it is, with no call of Tesseract.recognize.
C21_PipelineIffNoTextLayer ==
    ParseReturned =>
        /\ pipelineRuns = IF parsed.text.trimLen <= 100 THEN 1 ELSE 0
        /\ parsed.text.trimLen > 100 =>
              /\ Extracted
              /\ extracted = parsed.text
              /\ recognitions = 0
        /\ parsed.text.trimLen <= 100 =>
              /\ tpc # "pdfParse"
              /\ recognitions >= 1

C21_Witness ==
    /\ ParseReturned
    /\ parsed.text.len > 100
    /\ parsed.text.trimLen = 100
    /\ pipelineRuns = 1
    /\ Extracted
    /\ extracted # parsed.text


QuickRead == ~IsNull(quick)
QuickGood == quick.score.total > 1500 /\ quick.score.metrics.medicalTermCount > 3

\* C22: once the quick scan has been read and scored, its text has been
\* returned at once, no preprocessing method started, exactly when the
\* total exceeds 150 points and more than 3 of the medical terms occur in
\* it; otherwise every preprocessing method has been started, and all of
\* them have settled when the extraction returns.
C22_QuickAcceptIffGood ==
    QuickRead =>
        IF QuickGood
        THEN /\ Extracted
             /\ extracted = quick.text
             /\ \A i \in Methods : vpc[i] = "idle"
        ELSE /\ \A i \in Methods : vpc[i] # "idle"
             /\ Extracted => Selected /\ \A i \in Methods : Completed(i)

C22_Witness ==
    /\ QuickRead
    /\ QuickGood
    /\ Extracted
    /\ extracted = quick.text
    /\ recognitions = 2


\* C23: after the preprocessing methods, a winning text of fewer than 10
\* characters is returned as ' ' and any other winning text unchanged.
C23_SentinelBelowTen ==
    Selected =>
        extracted = IF bestResult.text.len < 10 THEN Blank ELSE bestResult.text


\* C24: the total of every score is the sum of the five parts of its
\* breakdown: the content, never above 50 points; 8 points a table pattern;
\* 15 points a medical term; 12 points a unit pattern; 0.4 points a point
\* of confidence (all in tenths of a point).  The same text and confidence
\* give the same score.
C24_TotalIsSumOfBreakdown ==
    /\ \A k \in 1..Len(scoreResult) :
          LET r == scoreResult[k]
              a == scoreArgs[k]
          IN  /\ r.total = r.breakdown.content + r.breakdown.structure
                           + r.breakdown.medicalContent + r.breakdown.units
                           + r.breakdown.confidence
              /\ DOMAIN r.breakdown =
                    {"content", "structure", "medicalContent", "units", "confidence"}
              /\ r.breakdown.content >= 0
              /\ r.breakdown.content <= 500
              /\ r.breakdown.structure = 80 * a.text.tablePatterns
              /\ r.breakdown.medicalContent = 150 * a.text.medicalTermCount
              /\ r.breakdown.units = 120 * a.text.unitPatterns
              /\ r.breakdown.confidence = 4 * a.confidence
    /\ (BothScored /\ scoreArgs[1] = scoreArgs[2]) => scoreResult[1] = scoreResult[2]

C24_Witness ==
    /\ BothScored
    /\ scoreArgs[1] = scoreArgs[2]
    /\ scoreArgs[1].text.len > 100
    /\ scoreResult[1].breakdown.content = 500
    /\ scoreResult[1].breakdown.confidence = 300
    /\ scoreResult[1].total = 500 + 80 + 300 + 240 + 300


\* The method chosen of the results as PREPROCESSING_METHODS lists them.
ChoiceInListOrder ==
    CHOOSE i \in Methods :
        /\ \A j \in Methods : results[j].score.total <= results[i].score.total
        /\ \A j \in Methods : j < i => results[j].score.total < results[i].score.total

\* C25: the text returned after the preprocessing methods is a function of
\* what each method resolved with, whatever the order in which they settled
\* and whichever of them failed: it is the text chosen of the results in
\* list order.
C25_ChoiceIgnoresSettlingOrder ==
    Selected =>
        /\ { completions[k] : k \in 1..Len(completions) } = Methods
        /\ extracted = IF results[ChoiceInListOrder].text.len > 10
                       THEN results[ChoiceInListOrder].text ELSE Blank

C25_Witness ==
    /\ Selected
    /\ completions = <<2, 1>>
    /\ results[1].score.total = results[2].score.total
    /\ results[1].text # results[2].text
    /\ extracted = results[1].text


----------------------------------------------------------------------------
\* Properties of POST /api/upload

Answered == rpc = "done"
ProcessingThrew == Len(caught) >= 1
FailedSaveThrew == Len(caught) = 2
LastReport == reports[Len(reports)]

\* C26: with a file present, once processing has thrown the handler
\* answers 200 with requiresManualEntry true after saving a report with
\* extractionMethod 'failed', requiresManualEntry true, no health parameter
\* and processingStatus 'failed', unless saving that report throws too; it
\* answers 500 in that case and in no other.
C26_UploadFailureIsManualEntry ==
    (Answered /\ file) =>
        /\ response.status = 500 <=> FailedSaveThrew
        /\ (ProcessingThrew /\ ~FailedSaveThrew) =>
              /\ response.status = 200
              /\ IsTrue(response.body, "requiresManualEntry")
              /\ Len(reports) = 1
              /\ LastReport.extractionMethod = "failed"
              /\ LastReport.requiresManualEntry = TRUE
              /\ LastReport.healthParameters = <<>>
              /\ LastReport.processingStatus = "failed"

C26_Witness ==
    /\ Answered
    /\ file
    /\ caught = <<"save failed">>
    /\ extraction.method = "gemini"
    /\ Len(extraction.healthParameters) = 2
    /\ response.status = 200
    /\ LastReport.processingStatus = "failed"


----------------------------------------------------------------------------
\* More properties of extractHealthData

OCRFoundNothing ==
    /\ ocrCalls = 1
    /\ Has(ocrResult, "healthParameters")
    /\ Len(ocrResult.healthParameters) = 0

\* C27: in automatic mode, when the OCR found no parameter, a recognized
\* text that is empty or of fewer than 50 trimmed characters gives the
\* result of method 'ocr', successful, flagged as a scanned document and for
\* manual entry; a text of 50 trimmed characters or more gives the result of
\* method 'failed' with extractedText ' ' and isScannedDocument true, the
\* recognized text not being in it.
C27_ZeroParametersByTextLength ==
    (Done /\ AutoMode /\ OCRFoundNothing) =>
        IF ocrResult.extractedText.trimLen < 50
        THEN /\ ret.method = "ocr"
             /\ ret.success = TRUE
             /\ ret.isScannedDocument = TRUE
             /\ ret.requiresManualEntry = TRUE
             /\ ret.extractedText = ocrResult.extractedText
        ELSE /\ ret.method = "failed"
             /\ ret.success = FALSE
             /\ ret.extractedText = Sentinel
             /\ ret.isScannedDocument = TRUE

C27_Witness ==
    /\ Done
    /\ AutoMode
    /\ OCRFoundNothing
    /\ ocrResult.extractedText.trimLen = 101
    /\ ret.method = "failed"
    /\ ret.extractedText # ocrResult.extractedText


\* C28: in every result extractHealthData returns, extractionLog.finalMethod
\* is the method of the result, 'failed' included.
C28_FinalMethodIsMethod ==
    (Done /\ outcome = "fulfilled") =>
        /\ Has(ret, "method")
        /\ ret.extractionLog.finalMethod = ret.method

\* Outside the catch block the two agree.
FinalMethodAgreesUnlessFailed ==
    (Done /\ outcome = "fulfilled" /\ ret.method # "failed") =>
        ret.extractionLog.finalMethod = ret.method


\* C29: one call of extractHealthData calls extractWithGemini at most once
\* and extractWithOCR at most once, one text extraction calls
\* Tesseract.recognize at most 7 times, and when every awaited call settles
\* the call returns a result and the text extraction a text.
C29_BoundedCallsAndReturn ==
    /\ [](geminiCalls <= 1 /\ ocrCalls <= 1 /\ recognitions <= 7 /\ pipelineRuns <= 1)
    /\ <>((Done /\ outcome = "fulfilled" /\ ~IsNull(ret)) \/ (Extracted /\ ~IsNull(extracted)))

C29_Witness ==
    /\ Extracted
    /\ recognitions = 7
    /\ rotation = 270
    /\ Selected


----------------------------------------------------------------------------
\* sanitizeStatus

\* A string is the sequence of its characters.
UpperCaseLetters ==
    <<"A", "B", "C", "D", "E", "F", "G", "H", "I", "J", "K", "L", "M",
      "N", "O", "P", "Q", "R", "S", "T", "U", "V", "W", "X", "Y", "Z">>

LowerCaseLetters ==
    <<"a", "b", "c", "d", "e", "f", "g", "h", "i", "j", "k", "l", "m",
      "n", "o", "p", "q", "r", "s", "t", "u", "v", "w", "x", "y", "z">>

LetterIndex(letters, c) == CHOOSE k \in 1..Len(letters) : letters[k] = c

IsLetterOf(letters, c) == \E k \in 1..Len(letters) : letters[k] = c

\* String.prototype.toLowerCase
lowerCase(s) ==
    [k \in 1..Len(s) |->
        IF IsLetterOf(UpperCaseLetters, s[k])
        THEN LowerCaseLetters[LetterIndex(UpperCaseLetters, s[k])]
        ELSE s[k]]

\* String.prototype.toUpperCase
upperCase(s) ==
    [k \in 1..Len(s) |->
        IF IsLetterOf(LowerCaseLetters, s[k])
        THEN UpperCaseLetters[LetterIndex(LowerCaseLetters, s[k])]
        ELSE s[k]]

IsWhiteSpace(c) == c \in {" ", "\t", "\n"}

\* String.prototype.trim
trim(s) ==
    LET inked == { k \in 1..Len(s) : ~IsWhiteSpace(s[k]) }
    IN  IF inked = {} THEN <<>>
        ELSE SubSeq(s, CHOOSE k \in inked : \A j \in inked : k <= j,
                       CHOOSE k \in inked : \A j \in inked : j <= k)

\* String.prototype.includes
includes(s, sub) ==
    \E k \in 0..(Len(s) - Len(sub)) : SubSeq(s, k + 1, k + Len(sub)) = sub

\* The words sanitizeStatus looks for.
normal == <<"n", "o", "r", "m", "a", "l">>
withinRange == <<"w", "i", "t", "h", "i", "n", " ", "r", "a", "n", "g", "e">>
high == <<"h", "i", "g", "h">>
elevated == <<"e", "l", "e", "v", "a", "t", "e", "d">>
low == <<"l", "o", "w">>
decreased == <<"d", "e", "c", "r", "e", "a", "s", "e", "d">>
abnormal == <<"a", "b", "n", "o", "r", "m", "a", "l">>
diagnosed == <<"d", "i", "a", "g", "n", "o", "s", "e", "d">>
present == <<"p", "r", "e", "s", "e", "n", "t">>
absent == <<"a", "b", "s", "e", "n", "t">>
none == <<"n", "o", "n", "e">>

\* A status value is null or a string; !status holds of null and of ''.
StringValue(s) == [chars |-> s]

Falsy(v) == IsNull(v) \/ Len(v.chars) = 0

\* sanitizeStatus: the first test that holds decides.
sanitizeStatus(st) ==
    IF Falsy(st) THEN "Unknown"
    ELSE LET normalized == trim(lowerCase(st.chars))
         IN  IF includes(normalized, normal) \/ normalized = withinRange THEN "Normal"
             ELSE IF includes(normalized, high) \/ includes(normalized, elevated) THEN "High"
             ELSE IF includes(normalized, low) \/ includes(normalized, decreased) THEN "Low"
             ELSE IF includes(normalized, abnormal) \/ includes(normalized, diagnosed)
                  THEN "Abnormal"
             ELSE IF includes(normalized, present) THEN "Present"
             ELSE IF includes(normalized, absent) \/ includes(normalized, none) THEN "Absent"
             ELSE "Unknown"

\* status: { enum: [...] } of the health parameter schema
StatusEnum == {"Normal", "High", "Low", "Abnormal", "Unknown", "Present", "Absent", "N/A"}

\* VALID STATUS VALUES of the prompt, each with its characters.
ValidStatusValues ==
    { [name |-> "Normal", chars |-> <<"N", "o", "r", "m", "a", "l">>],
      [name |-> "High", chars |-> <<"H", "i", "g", "h">>],
      [name |-> "Low", chars |-> <<"L", "o", "w">>],
      [name |-> "Abnormal", chars |-> <<"A", "b", "n", "o", "r", "m", "a", "l">>],
      [name |-> "Unknown", chars |-> <<"U", "n", "k", "n", "o", "w", "n">>] }

\* Status words a model answers with.
StatusWords ==
    { v.chars : v \in ValidStatusValues } \cup
    { <<"P", "r", "e", "s", "e", "n", "t">>,
      <<"A", "b", "s", "e", "n", "t">>,
      <<"W", "i", "t", "h", "i", "n", " ", "R", "a", "n", "g", "e">>,
      <<"E", "l", "e", "v", "a", "t", "e", "d">>,
      <<"D", "e", "c", "r", "e", "a", "s", "e", "d">>,
      <<"D", "i", "a", "g", "n", "o", "s", "e", "d">>,
      <<"N", "o", "n", "e">>,
      <<"N", "/", "A">>,
      <<"B", "o", "r", "d", "e", "r", "l", "i", "n", "e">>,
      <<"S", "l", "i", "g", "h", "t", "l", "y", " ", "H", "i", "g", "h">>,
      <<"B", "e", "l", "o", "w", " ", "r", "a", "n", "g", "e">> }

Casings(w) == {w, lowerCase(w), upperCase(w)}

Paddings(w) == {w, <<" ">> \o w, w \o <<" ">>, <<" ">> \o w \o <<" ">>}

StatusInputs ==
    {Null, StringValue(<<>>), StringValue(<<" ">>)} \cup
    { StringValue(p) : p \in UNION { Paddings(c) : c \in UNION { Casings(w) : w \in StatusWords } } }

InitStatus ==
    /\ status \in StatusInputs
    /\ sanitized = NullString
    /\ CallIdle
    /\ mimeType = "application/pdf"
    /\ fileBuffer = "empty"
    /\ apiKey = FALSE
    /\ PipelineIdle
    /\ ScorerIdle
    /\ ConcurrentIdle
    /\ RouteIdle

\* param.status = sanitizeStatus(p.status)
Sanitize ==
    /\ sanitized = NullString
    /\ sanitized' = sanitizeStatus(status)
    /\ UNCHANGED <<call, pipeline, scorer, concurrent, route, status>>

NextStatus == Sanitize

SpecStatus == InitStatus /\ [][NextStatus]_vars

Sanitized == sanitized # NullString

\* The status is one of the prompt's valid values, in whatever case.
IsValidValue(v) ==
    /\ ~IsNull(status)
    /\ lowerCase(status.chars) = lowerCase(v.chars)

\* C30: sanitizeStatus returns a value of the schema's status enum, and it
\* returns each of the prompt's valid status values ('Normal', 'High', 'Low',
\* 'Abnormal', 'Unknown') for that value written in any case.
C30_ValidStatusMapsToItself ==
    Sanitized =>
        /\ sanitized \in StatusEnum
        /\ \A v \in ValidStatusValues : IsValidValue(v) => sanitized = v.name

\* What sanitizeStatus returns is always of the enum, and the valid values
\* other than 'Abnormal' come back as themselves.
SanitizedIsOfEnum ==
    Sanitized =>
        /\ sanitized \in StatusEnum
        /\ \A v \in ValidStatusValues :
              (IsValidValue(v) /\ v.name # "Abnormal") => sanitized = v.name

\* 'normal' is a substring of 'abnormal', and the normal test stands first.
AbnormalReadAsNormal ==
    (Sanitized /\ \E v \in ValidStatusValues : v.name = "Abnormal" /\ IsValidValue(v))
        => sanitized = "Normal"

====
